---- MODULE Spec2Model ----
(***************************************************************************)
(* LASTRO pilot dashboard (07_dashboard_app.py): the Streamlit script as a *)
(* state machine.  One script run = load_data (memoised) + sidebar widgets *)
(* + filter block + KPIs / grouped tables / top tracks / CSV export.       *)
(*                                                                         *)
(* Text is a sequence of one-character strings, so that str.lower,         *)
(* str.strip, str.contains, sorted(), ", ".join and strftime are computed  *)
(* rather than assumed.  Amounts (net_royalty, units) are integers: sums   *)
(* are exact, floating-point rounding is not modelled.                     *)
(***************************************************************************)
EXTENDS Integers, Sequences, FiniteSets, TLC

VARIABLES
    source,   \* processed/facts_normalized.parquet: [cols, rows]
    status,   \* "start" before the first run, "ok" after a run, "error" when the run raised
    df,       \* the table load_data returned (memoised by st.cache_data)
    params,   \* the sidebar widgets' values of the last run
    f,        \* the filtered view at the end of the filter block (line 109)
    out       \* KPIs, timeline, grouped tables, top tracks and the exported table

vars == <<source, status, df, params, f, out>>

----------------------------------------------------------------------------
(* Bounds of the model *)

MaxRows == 2

MaxActive == 2

----------------------------------------------------------------------------
(* Text *)

\* Code points 32..126 in order; the double quote (34), the backslash (92) and the
\* backtick (96) are held by placeholders: no text of the model contains them.
Ascii ==
    << " ", "!", "QUOTE", "#", "$", "%", "&", "'", "(", ")", "*", "+", ",", "-", ".", "/",
       "0", "1", "2", "3", "4", "5", "6", "7", "8", "9", ":", ";", "<", "=", ">", "?",
       "@", "A", "B", "C", "D", "E", "F", "G", "H", "I", "J", "K", "L", "M", "N", "O",
       "P", "Q", "R", "S", "T", "U", "V", "W", "X", "Y", "Z", "[", "BACKSLASH", "]", "^", "_",
       "BACKTICK", "a", "b", "c", "d", "e", "f", "g", "h", "i", "j", "k", "l", "m", "n", "o",
       "p", "q", "r", "s", "t", "u", "v", "w", "x", "y", "z", "{", "|", "}", "~" >>

AsciiChars == {Ascii[i] : i \in 1..Len(Ascii)}

OrdTable == [c \in AsciiChars |-> 31 + (CHOOSE i \in 1..Len(Ascii) : Ascii[i] = c)]

\* Python's ord(): the code point of a character.
Ord(c) == IF c \in AsciiChars THEN OrdTable[c] ELSE 237

\* str.lower on one character.
LowerChar(c) ==
    IF c \in AsciiChars /\ OrdTable[c] >= 65 /\ OrdTable[c] <= 90
    THEN Ascii[OrdTable[c] + 32 - 31]
    ELSE c

\* Series.str.lower / str.lower
lower(s) == [i \in 1..Len(s) |-> LowerChar(s[i])]

RECURSIVE lstrip(_)
lstrip(s) == IF s # <<>> /\ Head(s) = " " THEN lstrip(Tail(s)) ELSE s

RECURSIVE rstrip(_)
rstrip(s) ==
    IF s # <<>> /\ s[Len(s)] = " " THEN rstrip(SubSeq(s, 1, Len(s) - 1)) ELSE s

\* str.strip
strip(s) == rstrip(lstrip(s))

\* a < b from character i on, the characters before being equal
RECURSIVE StrLessFrom(_, _, _)
StrLessFrom(a, b, i) ==
    IF i > Len(b) THEN FALSE
    ELSE IF i > Len(a) THEN TRUE
    ELSE IF a[i] = b[i] THEN StrLessFrom(a, b, i + 1)
    ELSE Ord(a[i]) < Ord(b[i])

\* Python's < on str: lexicographic by code point.
StrLess(a, b) == StrLessFrom(a, b, 1)

\* x put into an increasing list of strings
RECURSIVE insort(_, _)
insort(l, x) ==
    IF l = <<>> THEN <<x>>
    ELSE IF StrLess(x, Head(l)) THEN <<x>> \o l
    ELSE <<Head(l)>> \o insort(Tail(l), x)

\* sorted(set) on strings
RECURSIVE sorted(_)
sorted(S) ==
    IF S = {} THEN <<>>
    ELSE LET x == CHOOSE y \in S : TRUE
         IN  insort(sorted(S \ {x}), x)

\* sep.join(list)
RECURSIVE join(_, _)
join(sep, l) ==
    IF l = <<>> THEN <<>>
    ELSE IF Len(l) = 1 THEN l[1]
    ELSE l[1] \o sep \o join(sep, Tail(l))

\* The pattern matches the text at offset i.  Series.str.contains compiles its
\* argument as a regular expression (regex=True is the default): over the search
\* alphabet of this model the only metacharacter is ".", which matches any character.
ReMatchAt(pat, s, i) ==
    \A k \in 1..Len(pat) : pat[k] = "." \/ pat[k] = s[i + k - 1]

\* Series.str.contains(pat) on one value: re.search(pat, s) is not None
contains(s, pat) ==
    \E i \in 1..(Len(s) - Len(pat) + 1) : ReMatchAt(pat, s, i)

\* Plain substring test (Python's `in`), what a literal search would compute.
Substring(s, pat) ==
    \E i \in 1..(Len(s) - Len(pat) + 1) : SubSeq(s, i, i + Len(pat) - 1) = pat

----------------------------------------------------------------------------
(* Cells of the source file *)

\* A null cell as pandas reads it from the file: Python's None, or a float NaN.
\* Both are one-element tuples whose element is no character.
PyNone == << "<None>" >>

NaN == << "<NaN>" >>

Digits == {"0", "1", "2", "3", "4", "5", "6", "7", "8", "9"}

DigitVal(c) == OrdTable[c] - 48

DigitChar(n) == Ascii[n + 17]

IsDigits(s) == s # <<>> /\ \A i \in 1..Len(s) : s[i] \in Digits

RECURSIVE ParseNat(_)
ParseNat(s) ==
    IF s = <<>> THEN 0 ELSE 10 * ParseNat(SubSeq(s, 1, Len(s) - 1)) + DigitVal(s[Len(s)])

\* pd.to_numeric(column, errors="coerce") on one cell: the number, or NaN for a
\* null and for text that is no number.  Numbers are signed integers here.
to_numeric(v) ==
    IF IsDigits(v) THEN [isnan |-> FALSE, val |-> ParseNat(v)]
    ELSE IF v # <<>> /\ Head(v) = "-" /\ IsDigits(Tail(v))
         THEN [isnan |-> FALSE, val |-> 0 - ParseNat(Tail(v))]
    ELSE [isnan |-> TRUE, val |-> 0]

\* .fillna(0.0) on a numeric cell
fillna_num(x, dflt) == IF x.isnan THEN dflt ELSE x.val

NaT == [y |-> 0, m |-> 0, d |-> 0, h |-> 0]

IsLeap(y) == (y % 4 = 0 /\ y % 100 # 0) \/ y % 400 = 0

DaysInMonth(y, m) ==
    IF m = 2 THEN (IF IsLeap(y) THEN 29 ELSE 28)
    ELSE IF m \in {4, 6, 9, 11} THEN 30 ELSE 31

\* The years a pandas nanosecond Timestamp can hold in full.
MinYear == 1678

MaxYear == 2261

\* pd.to_datetime(column, errors="coerce") on one cell: a Timestamp for an ISO
\* date "YYYY-MM-DD" (midnight), NaT for a null and for every other text of the model.
to_datetime(v) ==
    IF Len(v) = 10 /\ v[5] = "-" /\ v[8] = "-"
       /\ IsDigits(SubSeq(v, 1, 4)) /\ IsDigits(SubSeq(v, 6, 7)) /\ IsDigits(SubSeq(v, 9, 10))
    THEN LET y == ParseNat(SubSeq(v, 1, 4))
             m == ParseNat(SubSeq(v, 6, 7))
             d == ParseNat(SubSeq(v, 9, 10))
         IN  IF y >= MinYear /\ y <= MaxYear /\ m >= 1 /\ m <= 12
                /\ d >= 1 /\ d <= DaysInMonth(y, m)
             THEN [y |-> y, m |-> m, d |-> d, h |-> 0]
             ELSE NaT
    ELSE NaT

\* Series.dt.date on one Timestamp
dt_date(ts) == [y |-> ts.y, m |-> ts.m, d |-> ts.d]

\* <= on datetime.date
DateLeq(a, b) ==
    \/ a.y < b.y
    \/ a.y = b.y /\ a.m < b.m
    \/ a.y = b.y /\ a.m = b.m /\ a.d <= b.d

\* Series.dt.strftime("%Y-%m") on one Timestamp: zero-padded year, "-", zero-padded month
strftime_Ym(ts) ==
    << DigitChar(ts.y \div 1000), DigitChar((ts.y \div 100) % 10),
       DigitChar((ts.y \div 10) % 10), DigitChar(ts.y % 10), "-",
       DigitChar(ts.m \div 10), DigitChar(ts.m % 10) >>

\* Series.astype(str) on one cell of an object column
astype_str(v) ==
    IF v = PyNone THEN <<"N", "o", "n", "e">>
    ELSE IF v = NaN THEN <<"n", "a", "n">>
    ELSE v

\* .astype(str).replace({"nan": np.nan, "None": np.nan}).fillna(fill) on one cell
fill_cell(v, fill) ==
    LET s == astype_str(v)
        r == IF s \in {<<"n", "a", "n">>, <<"N", "o", "n", "e">>} THEN NaN ELSE s
    IN  IF r = NaN THEN fill ELSE r

\* The (column, fill) list of load_data
CatCols ==
    {"distributor", "artist", "track_title", "release_title", "store", "country",
     "currency", "classification"}

Fill ==
    [c \in CatCols |->
        CASE c = "distributor" ->
                <<"(", "s", "e", "m", " ", "d", "i", "s", "t", "r", "i", "b", "u", "i",
                  "d", "o", "r", "a", ")">>
          [] c = "artist" -> <<"(", "s", "e", "m", " ", "a", "r", "t", "i", "s", "t", "a", ")">>
          [] c = "track_title" -> <<"(", "s", "e", "m", " ", "f", "a", "i", "x", "a", ")">>
          [] c = "release_title" ->
                <<"(", "s", "e", "m", " ", "r", "e", "l", "e", "a", "s", "e", ")">>
          [] c = "store" ->
                <<"(", "s", "e", "m", " ", "p", "l", "a", "t", "a", "f", "o", "r", "m", "a", ")">>
          [] c = "country" -> <<"(", "s", "e", "m", " ", "p", "a", "í", "s", ")">>
          [] c = "currency" -> <<"(", "s", "e", "m", " ", "m", "o", "e", "d", "a", ")">>
          [] c = "classification" -> <<"i", "n", "c", "e", "r", "t", "o">>]

\* One categorical column after the loop body of load_data: filled when the file
\* has the column, the fill in every row when it has not.
fill_column(cols, c, v) == IF c \in cols THEN fill_cell(v, Fill[c]) ELSE Fill[c]

\* One row of the file after the coercions of load_data (before dropna); idx is the
\* row's index label, which pandas keeps through dropna and boolean indexing.
coerce_row(cols, r, i) ==
    [idx |-> i,
     net_royalty |-> fillna_num(to_numeric(r.net_royalty), 0),
     units |-> fillna_num(to_numeric(r.units), 0),
     period |-> to_datetime(r.period),
     period_date |-> dt_date(to_datetime(r.period)),
     distributor |-> fill_column(cols, "distributor", r.distributor),
     artist |-> fill_column(cols, "artist", r.artist),
     track_title |-> fill_column(cols, "track_title", r.track_title),
     release_title |-> fill_column(cols, "release_title", r.release_title),
     store |-> fill_column(cols, "store", r.store),
     country |-> fill_column(cols, "country", r.country),
     currency |-> fill_column(cols, "currency", r.currency),
     classification |-> fill_column(cols, "classification", r.classification),
     isrc |-> r.isrc,
     upc |-> r.upc]

\* Mutant of dropna_period: no row is dropped
dropna_none(rows) == rows

\* df.dropna(subset=["period"])
dropna_period(rows) == SelectSeq(rows, LAMBDA r : r.period # NaT)

\* load_data(): the table the script works on
load_data(src) ==
    [cols |-> src.cols \cup CatCols \cup {"net_royalty", "units", "period", "period_date"},
     rows |-> dropna_period([i \in 1..Len(src.rows) |-> coerce_row(src.cols, src.rows[i], i)])]

----------------------------------------------------------------------------
(* Sidebar *)

Dates(t) == {t.rows[i].period_date : i \in 1..Len(t.rows)}

\* df["period_date"].min() / .max(), on a table with rows
dmin(t) == CHOOSE a \in Dates(t) : \A b \in Dates(t) : DateLeq(a, b)

dmax(t) == CHOOSE a \in Dates(t) : \A b \in Dates(t) : DateLeq(b, a)

\* set(df[c].unique()): the options of a multiselect
unique(t, c) == {t.rows[i][c] : i \in 1..Len(t.rows)}

\* The widget values of a first run: value=(dmin, dmax), default=all_dist,
\* default=all_class, default=[], default=[], value="", value=0.0, value=0.0
DefaultParams(t) ==
    [date_range |-> <<dmin(t), dmax(t)>>,
     sel_dist |-> unique(t, "distributor"),
     sel_class |-> unique(t, "classification"),
     sel_store |-> {},
     sel_country |-> {},
     search |-> <<>>,
     min_rev |-> 0,
     min_units |-> 0]

\* start_date, end_date: the pair the date_input returned, or (dmin, dmax) when it
\* returned anything else (one date while the user is still picking)
date_bounds(t, date_range) ==
    IF Len(date_range) = 2 THEN date_range ELSE <<dmin(t), dmax(t)>>

----------------------------------------------------------------------------
(* Filter block *)

\* f = df.copy(): a new table with the same columns and rows
copy(t) == [cols |-> t.cols, rows |-> t.rows]

\* Mutant of filter_isin: the selection is applied even when it is empty
filter_isin_always(rows, c, sel) == SelectSeq(rows, LAMBDA r : r[c] \in sel)

\* f[f[c].isin(sel)] when sel is non-empty, f otherwise
filter_isin(rows, c, sel) ==
    IF sel # {} THEN SelectSeq(rows, LAMBDA r : r[c] \in sel) ELSE rows

SearchCols == {"track_title", "release_title", "artist", "isrc", "upc"}

\* search = text_input(...).strip().lower()
search_text(typed) == lower(strip(typed))

\* One row of the mask: some searchable column the table has matches
search_mask(cols, r, search) ==
    \E c \in SearchCols \cap cols : contains(lower(astype_str(r[c])), search)

filter_search(cols, rows, search) ==
    IF search # <<>> THEN SelectSeq(rows, LAMBDA r : search_mask(cols, r, search)) ELSE rows

\* Mutant of filter_min: the comparison is strict
filter_min_strict(rows, c, minimum) ==
    IF minimum > 0 THEN SelectSeq(rows, LAMBDA r : r[c] > minimum) ELSE rows

\* f[f[c] >= minimum] when minimum > 0, f otherwise
filter_min(rows, c, minimum) ==
    IF minimum > 0 THEN SelectSeq(rows, LAMBDA r : r[c] >= minimum) ELSE rows

\* Mutant of filter_dates: the two comparisons are joined by | instead of &
filter_dates_or(rows, bounds) ==
    SelectSeq(rows, LAMBDA r : DateLeq(bounds[1], r.period_date)
                               \/ DateLeq(r.period_date, bounds[2]))

\* f[(f["period_date"] >= start_date) & (f["period_date"] <= end_date)]
filter_dates(rows, bounds) ==
    SelectSeq(rows, LAMBDA r : DateLeq(bounds[1], r.period_date)
                               /\ DateLeq(r.period_date, bounds[2]))

\* The filter block, lines 85-109
ApplyFilters(t, p) ==
    LET f0 == copy(t)
        f1 == filter_dates(f0.rows, date_bounds(t, p.date_range))
        f2 == filter_isin(f1, "distributor", p.sel_dist)
        f3 == filter_isin(f2, "classification", p.sel_class)
        f4 == filter_isin(f3, "store", p.sel_store)
        f5 == filter_isin(f4, "country", p.sel_country)
        f6 == filter_search(f0.cols, f5, search_text(p.search))
        f7 == filter_min(f6, "net_royalty", p.min_rev)
        f8 == filter_min(f7, "units", p.min_units)
    IN  [cols |-> f0.cols, rows |-> f8]

----------------------------------------------------------------------------
(* KPIs, charts and tables *)

RECURSIVE SumUpTo(_, _, _)
SumUpTo(rows, c, n) == IF n = 0 THEN 0 ELSE SumUpTo(rows, c, n - 1) + rows[n][c]

\* Series.sum(): 0 on an empty column
sum(rows, c) == SumUpTo(rows, c, Len(rows))

\* Series.nunique()
nunique(rows, c) == Cardinality({rows[i][c] : i \in 1..Len(rows)})

\* f["period_ym"] = pd.to_datetime(f["period"]).dt.strftime("%Y-%m")
with_period_ym(t) ==
    [cols |-> t.cols \cup {"period_ym"},
     rows |-> [i \in 1..Len(t.rows) |->
                 [c \in (DOMAIN t.rows[i]) \cup {"period_ym"} |->
                     IF c = "period_ym" THEN strftime_Ym(t.rows[i].period)
                     ELSE t.rows[i][c]]]]

\* The rows of one group
group(rows, c, key) == SelectSeq(rows, LAMBDA r : r[c] = key)

\* groupby(c): the group keys, sorted (sort=True is the default)
group_keys(rows, c) == sorted({rows[i][c] : i \in 1..Len(rows)})

\* One step of a stable descending sort: x goes after the elements not smaller
RECURSIVE insert_desc(_, _, _)
insert_desc(s, x, c) ==
    IF s = <<>> THEN <<x>>
    ELSE IF Head(s)[c] >= x[c] THEN <<Head(s)>> \o insert_desc(Tail(s), x, c)
    ELSE <<x>> \o s

\* sort_values(c, ascending=False).  Rows with equal values keep their order here;
\* pandas leaves that order to the sort kind, and no property below reads it.
RECURSIVE sort_values_desc(_, _, _)
sort_values_desc(s, c, n) ==
    IF n = 0 THEN <<>> ELSE insert_desc(sort_values_desc(s, c, n - 1), s[n], c)

\* .head(n)
head(s, n) == SubSeq(s, 1, IF Len(s) < n THEN Len(s) ELSE n)

\* Mutant of timeline_of: the buckets are sorted by value instead of by key
timeline_by_value(rows) ==
    LET keys == group_keys(rows, "period_ym")
        buckets == [k \in 1..Len(keys) |->
                      [period_ym |-> keys[k],
                       net_royalty |-> sum(group(rows, "period_ym", keys[k]), "net_royalty")]]
    IN  sort_values_desc(buckets, "net_royalty", Len(buckets))

\* f.groupby("period_ym")["net_royalty"].sum().sort_index()
timeline_of(rows) ==
    LET keys == group_keys(rows, "period_ym")
    IN  [k \in 1..Len(keys) |->
            [period_ym |-> keys[k],
             net_royalty |-> sum(group(rows, "period_ym", keys[k]), "net_royalty")]]

\* f.groupby(c)[["net_royalty", "units"]].sum().sort_values("net_royalty", ascending=False)
grouped_sum(rows, c) ==
    LET keys == group_keys(rows, c)
        sums == [k \in 1..Len(keys) |->
                    LET g == group(rows, c, keys[k])
                    IN  [key |-> keys[k],
                         net_royalty |-> sum(g, "net_royalty"),
                         units |-> sum(g, "units")]]
    IN  sort_values_desc(sums, "net_royalty", Len(sums))

TopStores == 20

TopCountries == 20

TopTracks == 30

\* Mutant of by_dist_of: cut to the top 20 like the store table
by_dist_truncated(rows) == head(grouped_sum(rows, "distributor"), TopStores)

by_dist_of(rows) == grouped_sum(rows, "distributor")

by_class_of(rows) == grouped_sum(rows, "classification")

by_store_of(rows) == head(grouped_sum(rows, "store"), TopStores)

by_country_of(rows) == head(grouped_sum(rows, "country"), TopCountries)

\* Mutant of join_distributors: ", ".join(s), neither deduplicated nor sorted
join_distributors_all(rows) ==
    join(<<",", " ">>, [i \in 1..Len(rows) |-> rows[i].distributor])

\* lambda s: ", ".join(sorted(set(s)))
join_distributors(rows) ==
    join(<<",", " ">>, sorted({rows[i].distributor : i \in 1..Len(rows)}))

\* groupby(["track_title"], as_index=False).agg(...): one row per title
track_groups(rows) ==
    LET keys == group_keys(rows, "track_title")
    IN  [k \in 1..Len(keys) |->
            LET g == group(rows, "track_title", keys[k])
            IN  [track_title |-> keys[k],
                 revenue |-> sum(g, "net_royalty"),
                 units |-> sum(g, "units"),
                 distributor |-> join_distributors(g)]]

\* ....sort_values("revenue", ascending=False).head(30)
top_tracks_of(rows) ==
    LET groups == track_groups(rows)
    IN  head(sort_values_desc(groups, "revenue", Len(groups)), TopTracks)

\* Everything the script renders from the filtered view, lines 114-174
Outputs(fv) ==
    LET g == with_period_ym(fv)
    IN  [total_rev |-> sum(fv.rows, "net_royalty"),
         total_units |-> sum(fv.rows, "units"),
         n_tracks |-> nunique(fv.rows, "track_title"),
         timeline |-> timeline_of(g.rows),
         by_dist |-> by_dist_of(g.rows),
         by_class |-> by_class_of(g.rows),
         by_store |-> by_store_of(g.rows),
         by_country |-> by_country_of(g.rows),
         top_tracks |-> top_tracks_of(g.rows),
         csv |-> g]

----------------------------------------------------------------------------
(* Source files the model starts from *)

OptionalCols ==
    {"distributor", "artist", "track_title", "release_title", "store", "country",
     "currency", "classification", "isrc", "upc"}

FullCols == {"period", "net_royalty", "units"} \cup OptionalCols

\* A file without the store, currency, isrc and upc columns
SlimCols == FullCols \ {"store", "currency", "isrc", "upc"}

RowPool ==
    << [period |-> <<"2", "0", "2", "4", "-", "0", "1", "-", "1", "0">>,
        net_royalty |-> <<"1", "0">>, units |-> <<"1", "0", "0">>,
        distributor |-> <<"A">>, artist |-> <<"x">>, track_title |-> <<"a", "b">>,
        release_title |-> <<"r">>, store |-> <<"S">>, country |-> <<"B", "R">>,
        currency |-> <<"U", "S", "D">>, classification |-> <<"o", "k">>,
        isrc |-> <<"A", "B", "1">>, upc |-> <<"7">>],
       [period |-> <<"2", "0", "2", "4", "-", "0", "3", "-", "0", "5">>,
        net_royalty |-> <<"2", "0">>, units |-> <<"0">>,
        distributor |-> <<"B">>, artist |-> <<"y">>, track_title |-> <<"a", "b">>,
        release_title |-> <<"r">>, store |-> <<"T">>, country |-> <<"U", "S">>,
        currency |-> <<"U", "S", "D">>, classification |-> <<"o", "k">>,
        isrc |-> PyNone, upc |-> <<"8">>],
       [period |-> <<"2", "0", "2", "4", "-", "0", "1", "-", "2", "0">>,
        net_royalty |-> <<"0">>, units |-> <<"5", "0">>,
        distributor |-> PyNone, artist |-> NaN, track_title |-> <<>>,
        release_title |-> <<"N", "o", "n", "e">>, store |-> <<"S">>, country |-> <<>>,
        currency |-> PyNone, classification |-> NaN,
        isrc |-> <<"b", "1">>, upc |-> PyNone],
       [period |-> <<"2", "0", "2", "4", "-", "1", "3", "-", "0", "1">>,
        net_royalty |-> <<"-", "5">>, units |-> <<"x">>,
        distributor |-> <<"Z">>, artist |-> <<"z">>, track_title |-> <<"z", "z">>,
        release_title |-> <<"z">>, store |-> <<"S">>, country |-> <<"B", "R">>,
        currency |-> <<"B", "R", "L">>, classification |-> <<"o", "k">>,
        isrc |-> <<"z", "z">>, upc |-> <<"9">>],
       [period |-> <<"2", "0", "2", "3", "-", "1", "2", "-", "3", "1">>,
        net_royalty |-> <<"-", "5">>, units |-> <<"n", "/", "a">>,
        distributor |-> <<"A">>, artist |-> <<"x">>, track_title |-> <<"c", "d">>,
        release_title |-> <<"q">>, store |-> <<"T">>, country |-> <<"B", "R">>,
        currency |-> <<"B", "R", "L">>, classification |-> <<"d", "u", "p">>,
        isrc |-> <<"C", "D", "2">>, upc |-> <<"7">>] >>

\* A row as the file holds it: the cells of the columns the file has
project(cols, r) == [c \in FullCols |-> IF c \in cols THEN r[c] ELSE PyNone]

\* The ways to pick n rows of the pool, in pool order
Picks(n) == {q \in [1..n -> 1..Len(RowPool)] : \A i \in 1..(n - 1) : q[i] <= q[i + 1]}

\* The files of up to MaxRows rows of the pool
SmallSources ==
    UNION {{[cols |-> cols, rows |-> [i \in 1..n |-> project(cols, RowPool[pick[i]])]] :
               cols \in {FullCols, SlimCols}, pick \in Picks(n)} : n \in 0..MaxRows}

TwoDigits(i) == <<DigitChar(i \div 10), DigitChar(i % 10)>>

\* A catalogue with more tracks, distributors and stores than any table shows:
\* row i has revenue and units i
Catalog ==
    [cols |-> FullCols,
     rows |-> [i \in 1..(TopTracks + 1) |->
        [period |-> <<"2", "0", "2", "4", "-", "0", "1", "-", "1", "0">>,
         net_royalty |-> TwoDigits(i), units |-> TwoDigits(i),
         distributor |-> <<"D">> \o TwoDigits(i), artist |-> <<"x">>,
         track_title |-> <<"t">> \o TwoDigits(i), release_title |-> <<"r">>,
         store |-> <<"P">> \o TwoDigits(i), country |-> <<"B", "R">>,
         currency |-> <<"U", "S", "D">>, classification |-> <<"o", "k">>,
         isrc |-> PyNone, upc |-> PyNone]]]

Sources == SmallSources \cup {Catalog}

----------------------------------------------------------------------------
(* Widget values the model tries *)

\* A range of two dates of the table, or one date (the picker mid-selection)
DateChoices(t) ==
    {r \in Dates(t) \X Dates(t) : DateLeq(r[1], r[2])} \cup {<<dmin(t)>>}

\* Nothing, everything, only the first option, everything but the first option
SelChoices(options) ==
    LET first == CHOOSE x \in options : \A y \in options : ~StrLess(y, x)
    IN  {{}, options, {first}, options \ {first}}

SearchChoices == {<<>>, <<"a", "B", " ">>, <<".">>, <<"b", "1">>}

MinRevChoices == {0, 10}

MinUnitsChoices == {0, 50}

Widgets ==
    {"date_range", "sel_dist", "sel_class", "sel_store", "sel_country", "search",
     "min_rev", "min_units"}

\* How many widgets are away from their first-run value
Active(t, p) == Cardinality({w \in Widgets : p[w] # DefaultParams(t)[w]})

----------------------------------------------------------------------------
(* The script *)

NotLoaded == [cols |-> {}, rows |-> <<>>]

NoParams ==
    [date_range |-> <<>>, sel_dist |-> {}, sel_class |-> {}, sel_store |-> {},
     sel_country |-> {}, search |-> <<>>, min_rev |-> 0, min_units |-> 0]

\* Mutant of cached_load_data: the previous run filtered the memoised table in place
cached_load_data_inplace(memo, src) ==
    IF memo = NotLoaded THEN load_data(src) ELSE [memo EXCEPT !.rows = f.rows]

\* @st.cache_data: the body runs on the first call, later calls return its result
cached_load_data(memo, src) == IF memo = NotLoaded THEN load_data(src) ELSE memo

Init ==
    /\ source \in Sources
    /\ status = "start"
    /\ df = NotLoaded
    /\ params = NoParams
    /\ f = NotLoaded
    /\ out = Outputs(NotLoaded)

\* One run of the script from `df = load_data()` to the download button, with the
\* widgets returning p.  A table without rows has no dmin: the date_input raises.
Render(t, p) ==
    LET fv == ApplyFilters(t, p)
    IN  /\ status' = "ok"
        /\ params' = p
        /\ f' = fv
        /\ out' = Outputs(fv)

Raise ==
    /\ status' = "error"
    /\ UNCHANGED <<params, f, out>>

\* The first run of a session: every widget at its default
FirstRun ==
    /\ status = "start"
    /\ LET t == cached_load_data(df, source)
       IN  /\ df' = t
           /\ IF t.rows = <<>> THEN Raise ELSE Render(t, DefaultParams(t))
    /\ UNCHANGED source

\* A rerun after the user changed widget w to value v
Rerun(w, v) ==
    /\ status = "ok"
    /\ LET t == cached_load_data(df, source)
           p == [params EXCEPT ![w] = v]
       IN  /\ v # params[w]
           /\ df' = t
           /\ IF t.rows = <<>> THEN Raise
              ELSE Active(t, p) <= MaxActive /\ Render(t, p)
    /\ UNCHANGED source

ChangeDateRange ==
    /\ status = "ok"
    /\ \E v \in DateChoices(df) : Rerun("date_range", v)

ChangeSelDist ==
    /\ status = "ok"
    /\ \E v \in SelChoices(unique(df, "distributor")) : Rerun("sel_dist", v)

ChangeSelClass ==
    /\ status = "ok"
    /\ \E v \in SelChoices(unique(df, "classification")) : Rerun("sel_class", v)

ChangeSelStore ==
    /\ status = "ok"
    /\ \E v \in SelChoices(unique(df, "store")) : Rerun("sel_store", v)

ChangeSelCountry ==
    /\ status = "ok"
    /\ \E v \in SelChoices(unique(df, "country")) : Rerun("sel_country", v)

ChangeSearch ==
    /\ status = "ok"
    /\ \E v \in SearchChoices : Rerun("search", v)

ChangeMinRev ==
    /\ status = "ok"
    /\ \E v \in MinRevChoices : Rerun("min_rev", v)

ChangeMinUnits ==
    /\ status = "ok"
    /\ \E v \in MinUnitsChoices : Rerun("min_units", v)

Next ==
    \/ FirstRun
    \/ ChangeDateRange
    \/ ChangeSelDist
    \/ ChangeSelClass
    \/ ChangeSelStore
    \/ ChangeSelCountry
    \/ ChangeSearch
    \/ ChangeMinRev
    \/ ChangeMinUnits

Spec == Init /\ [][Next]_vars

----------------------------------------------------------------------------
(* What the properties below are stated with *)

Ran == status = "ok"

Loaded == status # "start"

\* The column a selection or a minimum filters on
ColumnOf ==
    [w \in {"sel_dist", "sel_class", "sel_store", "sel_country", "min_rev", "min_units"} |->
        CASE w = "sel_dist" -> "distributor"
          [] w = "sel_class" -> "classification"
          [] w = "sel_store" -> "store"
          [] w = "sel_country" -> "country"
          [] w = "min_rev" -> "net_royalty"
          [] w = "min_units" -> "units"]

SelWidgets == {"sel_dist", "sel_class", "sel_store", "sel_country"}

MinWidgets == {"min_rev", "min_units"}

InDateRange(t, p, r) ==
    LET b == IF Len(p.date_range) = 2 THEN p.date_range ELSE <<dmin(t), dmax(t)>>
    IN  DateLeq(b[1], r.period_date) /\ DateLeq(r.period_date, b[2])

\* Row r passes every predicate of the filter block but the one of widget `skip`
Passes(t, p, r, skip) ==
    /\ InDateRange(t, p, r)
    /\ \A w \in SelWidgets \ {skip} : p[w] = {} \/ r[ColumnOf[w]] \in p[w]
    /\ skip # "search" => (search_text(p.search) = <<>>
                           \/ search_mask(t.cols, r, search_text(p.search)))
    /\ \A w \in MinWidgets \ {skip} : p[w] = 0 \/ r[ColumnOf[w]] >= p[w]

PassingRows(t, p, skip) == SelectSeq(t.rows, LAMBDA r : Passes(t, p, r, skip))

RowSet(rows) == {rows[i] : i \in 1..Len(rows)}

\* C1: whatever the widgets hold, the filtered view has the columns of the loaded
\* table, no more rows than it, and exactly its rows that pass every active
\* predicate (their conjunction), in the table's order.
C1_FilteredSubset ==
    Ran => /\ f.cols = df.cols
           /\ Len(f.rows) <= Len(df.rows)
           /\ RowSet(f.rows) \subseteq RowSet(df.rows)
           /\ f.rows = PassingRows(df, params, "none")

\* Two filters are active and the view is a proper, non-empty part of the table.
C1_Witness ==
    /\ Ran
    /\ params.sel_store # {}
    /\ params.min_rev > 0
    /\ Len(f.rows) > 0
    /\ Len(f.rows) < Len(df.rows)

\* C2: for each of distributor, classification, store and country alone: with an
\* empty selection the view is what the other predicates leave (the dimension does
\* not filter, it never empties the view); with a non-empty selection it is those
\* rows whose value is in the selection.
C2_EmptySelectionPassThrough ==
    Ran => \A w \in SelWidgets :
              LET others == PassingRows(df, params, w)
              IN  IF params[w] = {}
                  THEN f.rows = others
                  ELSE f.rows = SelectSeq(others, LAMBDA r : r[ColumnOf[w]] \in params[w])

\* All four selections are empty and every row of the table is in the view.
C2_Witness ==
    /\ Ran
    /\ \A w \in SelWidgets : params[w] = {}
    /\ f.rows = df.rows
    /\ Len(f.rows) > 1

\* C3: a minimum of 0 removes nothing (rows with 0 and with negative amounts stay);
\* a minimum above 0 keeps exactly the rows at or above it.  For net_royalty and units.
C3_MinimumThreshold ==
    Ran => \A w \in MinWidgets :
              LET others == PassingRows(df, params, w)
              IN  IF params[w] = 0
                  THEN f.rows = others
                  ELSE f.rows = SelectSeq(others, LAMBDA r : r[ColumnOf[w]] >= params[w])

\* Both minimums are 0 and the view holds a row with revenue 0, a row with negative
\* revenue and a row with 0 units.
C3_Witness ==
    /\ Ran
    /\ params.min_rev = 0
    /\ params.min_units = 0
    /\ \E r \in RowSet(f.rows) : r.net_royalty = 0
    /\ \E r \in RowSet(f.rows) : r.net_royalty < 0
    /\ \E r \in RowSet(f.rows) : r.units = 0

\* C4: the revenue totals of the distributor table add up to the total-revenue KPI
\* of the same view, the table has one group for every distributor of the view
\* (none cut off), and the KPI is the sum over the view's rows.
C4_DistributorTotalsComplete ==
    Ran => /\ sum(out.by_dist, "net_royalty") = out.total_rev
           /\ {out.by_dist[k].key : k \in 1..Len(out.by_dist)} = unique(f, "distributor")
           /\ Len(out.by_dist) = Cardinality(unique(f, "distributor"))
           /\ out.total_rev = sum(f.rows, "net_royalty")

\* The view has more distributors than a truncated table would show.
C4_Witness ==
    /\ Ran
    /\ Len(out.by_dist) > TopStores
    /\ out.total_rev > 0

YearMonthOfKey(key) == <<ParseNat(SubSeq(key, 1, 4)), ParseNat(SubSeq(key, 6, 7))>>

YearMonthLess(a, b) == a[1] < b[1] \/ (a[1] = b[1] /\ a[2] < b[2])

\* C5: the monthly series has one bucket for each calendar month that has a row in
\* the view and no other bucket, in chronological order, each with the revenue of
\* the rows of its month.
C5_MonthlyBuckets ==
    Ran => LET tl == out.timeline
               months == {<<r.period.y, r.period.m>> : r \in RowSet(f.rows)}
           IN  /\ Len(tl) = Cardinality(months)
               /\ {YearMonthOfKey(tl[k].period_ym) : k \in 1..Len(tl)} = months
               /\ \A k \in 1..Len(tl) : Len(tl[k].period_ym) = 7 /\ tl[k].period_ym[5] = "-"
               /\ \A i, j \in 1..Len(tl) :
                     i < j => YearMonthLess(YearMonthOfKey(tl[i].period_ym),
                                            YearMonthOfKey(tl[j].period_ym))
               /\ \A k \in 1..Len(tl) :
                     tl[k].net_royalty =
                        sum(SelectSeq(f.rows, LAMBDA r :
                                <<r.period.y, r.period.m>> = YearMonthOfKey(tl[k].period_ym)),
                            "net_royalty")

\* Rows of 2024-01 and 2024-03 only: two buckets, in that order, no 2024-02.
C5_Witness ==
    /\ Ran
    /\ Len(out.timeline) = 2
    /\ out.timeline[1].period_ym = <<"2", "0", "2", "4", "-", "0", "1">>
    /\ out.timeline[2].period_ym = <<"2", "0", "2", "4", "-", "0", "3">>

\* The elements of a set of strings as the one strictly increasing list of them
IncreasingList(S) ==
    CHOOSE l \in [1..Cardinality(S) -> S] :
        \A i, j \in 1..Cardinality(S) : i < j => StrLess(l[i], l[j])

\* C6: Top Tracks has one row per track title of the view, with the revenue and
\* units summed over the title's rows and its distinct distributors joined by ", "
\* in sorted order; rows go by revenue descending, and the 30 highest are kept.
C6_TopTracks ==
    Ran => LET tt == out.top_tracks
               titles == unique(f, "track_title")
               of(t) == SelectSeq(f.rows, LAMBDA r : r.track_title = t)
               kept == {tt[k].track_title : k \in 1..Len(tt)}
           IN  /\ Len(tt) = (IF Cardinality(titles) < TopTracks
                             THEN Cardinality(titles) ELSE TopTracks)
               /\ Cardinality(kept) = Len(tt)
               /\ kept \subseteq titles
               /\ \A k \in 1..Len(tt) :
                     /\ tt[k].revenue = sum(of(tt[k].track_title), "net_royalty")
                     /\ tt[k].units = sum(of(tt[k].track_title), "units")
                     /\ tt[k].distributor =
                           join(<<",", " ">>,
                                IncreasingList(RowSet([i \in 1..Len(of(tt[k].track_title)) |->
                                                         of(tt[k].track_title)[i].distributor])))
               /\ \A i, j \in 1..Len(tt) : i < j => tt[i].revenue >= tt[j].revenue
               /\ \A t \in titles \ kept :
                     \A k \in 1..Len(tt) : tt[k].revenue >= sum(of(t), "net_royalty")

\* One track with a row of distributor A and a row of distributor B: one row,
\* revenue 10 + 20, distributor "A, B".
C6_Witness ==
    /\ Ran
    /\ Len(f.rows) = 2
    /\ Len(out.top_tracks) = 1
    /\ out.top_tracks[1].revenue = 30
    /\ out.top_tracks[1].distributor = <<"A", ",", " ", "B">>

\* C7: with a search text, a row that passes the other predicates is kept exactly
\* when one of the searchable columns the table has contains the text as a
\* substring, case-insensitively; without a search text nothing is filtered.
C7_SearchIsSubstring ==
    Ran => LET text == search_text(params.search)
               others == PassingRows(df, params, "search")
           IN  IF text = <<>>
               THEN f.rows = others
               ELSE f.rows = SelectSeq(others, LAMBDA r :
                        \E c \in SearchCols \cap df.cols :
                            Substring(lower(astype_str(r[c])), text))

\* C8: after load no categorical column holds a null or an empty value: a column
\* the file lacks holds its fill, a null or empty cell (or the text of a null) holds
\* the fill, and every other cell holds the file's value.
C8_NoNullOrEmpty ==
    Loaded => \A r \in RowSet(df.rows) \cup RowSet(f.rows) : \A c \in CatCols :
                 LET cell == source.rows[r.idx][c]
                 IN  /\ r[c] \notin {<<>>, PyNone, NaN}
                     /\ c \notin source.cols => r[c] = Fill[c]
                     /\ (c \in source.cols
                         /\ cell \in {<<>>, PyNone, NaN, <<"n", "a", "n">>, <<"N", "o", "n", "e">>})
                           => r[c] = Fill[c]
                     /\ (c \in source.cols
                         /\ cell \notin {<<>>, PyNone, NaN, <<"n", "a", "n">>, <<"N", "o", "n", "e">>})
                           => r[c] = cell

\* The rows of the file whose period is no date
Unparseable == {i \in 1..Len(source.rows) : to_datetime(source.rows[i].period) = NaT}

IsDate(ts) ==
    /\ ts.m >= 1 /\ ts.m <= 12
    /\ ts.d >= 1 /\ ts.d <= DaysInMonth(ts.y, ts.m)

\* C9: a row of the file whose period is no date is in no table of any run: every
\* row of the working table, of the view and of the export has a real date and is
\* a row of the file with a parseable period, all of those are in the working
\* table, and no bucket, group or track comes from anything but the view.
C9_UnparseableDropped ==
    Loaded => /\ \A r \in RowSet(df.rows) \cup RowSet(f.rows) :
                    /\ r.period # NaT
                    /\ IsDate(r.period)
                    /\ r.idx \notin Unparseable
                    /\ r.period = to_datetime(source.rows[r.idx].period)
              /\ {df.rows[k].idx : k \in 1..Len(df.rows)} = (1..Len(source.rows)) \ Unparseable
              /\ {out.csv.rows[k].idx : k \in 1..Len(out.csv.rows)}
                    = {f.rows[k].idx : k \in 1..Len(f.rows)}
              /\ \A k \in 1..Len(out.timeline) :
                    \E r \in RowSet(f.rows) : out.timeline[k].period_ym = strftime_Ym(r.period)
              /\ {out.top_tracks[k].track_title : k \in 1..Len(out.top_tracks)}
                    \subseteq unique(f, "track_title")
              /\ {out.by_dist[k].key : k \in 1..Len(out.by_dist)} \subseteq unique(f, "distributor")
              /\ out.n_tracks = Cardinality(unique(f, "track_title"))

\* The file has a row with an unparseable period, the run used the full default
\* date range and the view is not empty.
C9_Witness ==
    /\ Ran
    /\ Unparseable # {}
    /\ params.date_range = <<dmin(df), dmax(df)>>
    /\ Len(f.rows) > 0

\* C10: in every run the working table is the table loaded from the file, and the
\* view and everything rendered are a function of that table and of the run's widget
\* values alone: runs with equal values render the same, whatever ran in between.
C10_RunsDependOnParamsOnly ==
    Ran => /\ df = load_data(source)
           /\ f = ApplyFilters(load_data(source), params)
           /\ out = Outputs(ApplyFilters(load_data(source), params))

\* A rerun with changed widgets narrowed the view; the working table is whole.
C10_Witness ==
    /\ Ran
    /\ params # DefaultParams(df)
    /\ Len(f.rows) < Len(df.rows)
    /\ Len(df.rows) = Len(source.rows)

====
